---------------------------- MODULE Spec2Model ----------------------------
(***************************************************************************)
(* Model of dandi/core/digests/dandietag.py: the multipart partition plan  *)
(* (PartGenerator) and the digest accumulator (DandiETag).                 *)
(*                                                                         *)
(* Sizes.  Python integers are unbounded and the sizes of the program go   *)
(* up to 5 * 2^40, which TLC's integers cannot hold.  The model counts     *)
(* sizes in units of 2^UnitLog2 bytes: mb, gb and tb keep the ratios of    *)
(* the source (2^10 between each), and every other number of the source    *)
(* (10_000 parts, 64, 5, 5, 5) is kept as it is.  A file of the model is a *)
(* sequence of units, each unit standing for one symbol of content.        *)
(*                                                                         *)
(* Optional values.  Python's None is the empty sequence and a value x     *)
(* that may be None is the one-element sequence <<x>>.                     *)
(***************************************************************************)
EXTENDS Integers, Sequences, FiniteSets, TLC

VARIABLES
    file_size,     \* the size the plan / accumulator is built for
    content,       \* the bytes of the file, one symbol per unit
    part_gen,      \* PartGenerator (Some record) or None
    it,            \* the generator object of PartGenerator.__iter__, or None
    md5_digests,   \* DandiETag._md5_digests: Some(sequence of slots) or None
    next_index,    \* DandiETag._next_index: Some(int) or None
    call,          \* the last call made: its name, argument, error and result
    log,           \* the successful submissions so far
    threads        \* the threads running add_digest concurrently

vars == <<file_size, content, part_gen, it, md5_digests, next_index, call, log,
          threads>>

None == <<>>
Some(x) == <<x>>
Get(o) == o[1]

---------------------------------------------------------------------------
(* Bounds of the model.                                                    *)

\* How far around each threshold of the algorithm the file sizes are drawn.
Window == 1
\* The largest part quantity of a file the accumulator is explored on.
MaxQty == 2
\* The number of distinct digest values a caller may submit.
NumDigests == 2
\* The number of distinct file contents.
NumContents == 2
\* The number of threads that call add_digest on one accumulator.
NumThreads == 2

---------------------------------------------------------------------------
(* dandietag.py, lines 12-42: units and limits.                            *)

UnitLog2 == 20

mb(bytes_size) == bytes_size * 2 ^ (20 - UnitLog2)

gb(bytes_size) == bytes_size * 2 ^ (30 - UnitLog2)

tb(bytes_size) == bytes_size * 2 ^ (40 - UnitLog2)

MAX_PARTS == 10000

MIN_PART_SIZE == mb(5)

MAX_PART_SIZE == gb(5)

\* math.ceil(a / b) for 0 <= a < 2^53 and the divisors of the source (2^26
\* bytes and 10_000): the float quotient is exact or off by less than the
\* distance to the next integer, so the result is the exact ceiling.
ceil(a, b) == (a + b - 1) \div b

Part(number, offset, size) ==
    [number |-> number, offset |-> offset, size |-> size]

PartGenerator(part_qty, initial_part_size, final_part_size) ==
    [part_qty |-> part_qty,
     initial_part_size |-> initial_part_size,
     final_part_size |-> final_part_size]

\* The outcome of a call: the exception raised ("none" when it returns) and
\* the value returned (None when it raises or returns None).
Raise(e) == [err |-> e, ret |-> None]
Return(v) == [err |-> "none", ret |-> Some(v)]
ReturnNone == [err |-> "none", ret |-> None]

---------------------------------------------------------------------------
(* PartGenerator                                                           *)

\* part_size_for_limit rounding file_size / MAX_PARTS down, not up.
part_size_for_limit_floor(file_size_, part_size) ==
    IF ceil(file_size_, part_size) >= MAX_PARTS
    THEN file_size_ \div MAX_PARTS
    ELSE part_size

\* line 52-53: the part size once the part limit is taken into account
part_size_for_limit(file_size_, part_size) ==
    IF ceil(file_size_, part_size) >= MAX_PARTS
    THEN ceil(file_size_, MAX_PARTS)
    ELSE part_size

\* lines 55-59: the clamp to [MIN_PART_SIZE, MAX_PART_SIZE]
clamp_part_size(part_size) ==
    LET ps1 == IF part_size < MIN_PART_SIZE THEN MIN_PART_SIZE ELSE part_size
    IN  IF ps1 > MAX_PART_SIZE THEN MAX_PART_SIZE ELSE ps1

\* split_parts without the single-part collapse of lines 66-67.
split_parts_no_collapse(file_size_, part_size) ==
    LET q == file_size_ \div part_size
        r == file_size_ % part_size
    IN  PartGenerator(IF r = 0 THEN q ELSE q + 1, part_size,
                      IF r = 0 THEN part_size ELSE r)

\* lines 61-68: divmod, the final part and the single-part collapse
split_parts(file_size_, part_size) ==
    LET q == file_size_ \div part_size
        r == file_size_ % part_size
        final_part_size == IF r = 0 THEN part_size ELSE r
        part_qty == IF r = 0 THEN q ELSE q + 1
        part_size2 == IF part_qty = 1 THEN final_part_size ELSE part_size
    IN  PartGenerator(part_qty, part_size2, final_part_size)

\* for_file_size with the size test written >= : it rejects 5 TiB itself.
for_file_size_ge(file_size_) ==
    IF file_size_ >= tb(5)
    THEN Raise("ValueError")
    ELSE Return(split_parts(file_size_,
                    clamp_part_size(part_size_for_limit(file_size_, mb(64)))))

\* for_file_size starting from a part size of 1 MiB, which the clamp of
\* lines 55-56 then raises to MIN_PART_SIZE.
for_file_size_small(file_size_) ==
    IF file_size_ > tb(5)
    THEN Raise("ValueError")
    ELSE Return(split_parts(file_size_,
                    clamp_part_size(part_size_for_limit(file_size_, mb(1)))))

\* PartGenerator.for_file_size
for_file_size(file_size_) ==
    IF file_size_ > tb(5)
    THEN Raise("ValueError")
    ELSE Return(split_parts(file_size_,
                    clamp_part_size(part_size_for_limit(file_size_, mb(64)))))

\* PartGenerator.__len__
len(pg) == pg.part_qty

\* PartGenerator.__getitem__
getitem(pg, index) ==
    IF 1 <= index /\ index < pg.part_qty
    THEN Return(Part(index, pg.initial_part_size * (index - 1),
                     pg.initial_part_size))
    ELSE IF index = pg.part_qty
    THEN Return(Part(index, pg.initial_part_size * (index - 1),
                     pg.final_part_size))
    ELSE Raise("IndexError")

\* PartGenerator.__iter__: the generator object before its first next().
\* number and offset are the loop's variables; pc is where the generator is
\* suspended; count, total, prev and last record what it has yielded.
iter(pg) ==
    [pg |-> pg, number |-> 1, offset |-> 0, pc |-> "loop",
     count |-> 0, total |-> 0, prev |-> None, last |-> None]

\* A yield of part p, the generator's loop variables becoming number, offset.
yield(g, p, number, offset, pc) ==
    [g EXCEPT !.number = number, !.offset = offset, !.pc = pc,
              !.count = g.count + 1, !.total = g.total + p.size,
              !.prev = g.last, !.last = Some(p)]

\* One next() on the generator: range(1, part_qty) yields the initial parts
\* and adds their size to offset; then the final part is yielded; then the
\* generator is exhausted.
next(g) ==
    IF g.pc = "loop" /\ g.number < g.pg.part_qty
    THEN yield(g, Part(g.number, g.offset, g.pg.initial_part_size),
               g.number + 1, g.offset + g.pg.initial_part_size, "loop")
    ELSE IF g.pc = "loop"
    THEN yield(g, Part(g.pg.part_qty, g.offset, g.pg.final_part_size),
               g.number, g.offset, "final")
    ELSE [g EXCEPT !.pc = "exhausted"]

---------------------------------------------------------------------------
(* Bytes, digests and text.  A bytes value is a sequence of 0..255 and a   *)
(* str is a sequence of one-character strings.                             *)

RECURSIVE weigh(_, _, _)
\* The sum over the positions i..Len(blob) of (blob[i] + 1) * (i + k).
weigh(blob, i, k) ==
    IF i > Len(blob) THEN 0
    ELSE (blob[i] + 1) * (i + k) + weigh(blob, i + 1, k)

RECURSIVE digest_from(_, _)
\* The bytes k..16 of the digest of blob.
digest_from(blob, k) ==
    IF k > 16 THEN <<>>
    ELSE <<(weigh(blob, 1, k) + 13 * Len(blob) + 7 * k) % 256>>
         \o digest_from(blob, k + 1)

\* hashlib.md5(blob).digest(): 16 bytes fixed by the bytes of blob and their
\* order.  The model keeps the width of the digest and replaces MD5's mixing
\* by a weighted sum; like MD5 it is a function, and not the identity.
md5(blob) == digest_from(blob, 1)

HexDigits ==
    <<"0", "1", "2", "3", "4", "5", "6", "7", "8", "9",
      "a", "b", "c", "d", "e", "f">>

RECURSIVE hex_from(_, _)
\* The hex digits of the bytes from position i on.
hex_from(bytes, i) ==
    IF i > Len(bytes) THEN <<>>
    ELSE <<HexDigits[(bytes[i] \div 16) + 1], HexDigits[(bytes[i] % 16) + 1]>>
         \o hex_from(bytes, i + 1)

\* bytes.hex(), as hexdigest() returns it: two lowercase digits per byte,
\* the high one first
hex(bytes) == hex_from(bytes, 1)

\* hashlib.md5(blob).hexdigest()
hexdigest(blob) == hex(md5(blob))

RECURSIVE str(_)
\* str(n) of an integer n >= 0, as an f-string formats it
str(n) ==
    IF n < 10 THEN <<HexDigits[n + 1]>>
    ELSE str(n \div 10) \o <<HexDigits[(n % 10) + 1]>>

\* The byte at position pos (from 0) of the file whose content is c.
byte(c, pos) == (c * (pos + 3)) % 256

RECURSIVE read(_, _, _, _)
\* f.read(n) with the file object at position pos of a file of `size` bytes:
\* the bytes from pos on, n of them or as many as the file still has.
read(c, size, pos, n) ==
    IF n <= 0 \/ pos >= size THEN <<>>
    ELSE <<byte(c, pos)>> \o read(c, size, pos + 1, n - 1)

---------------------------------------------------------------------------
(* DandiETag.  An accumulator is the record of its three attributes.       *)

\* DandiETag.__init__
DandiETag(file_size_) ==
    LET plan == for_file_size(file_size_)
    IN  IF plan.err # "none" THEN Raise(plan.err)
        ELSE Return([part_gen |-> Get(plan.ret),
                     md5_digests |-> [i \in 1..len(Get(plan.ret)) |-> None],
                     next_index |-> 0])

\* DandiETag.part_qty
part_qty(e) == len(e.part_gen)

\* DandiETag.complete
complete(e) == e.next_index = part_qty(e)

\* DandiETag.get_parts
get_parts(e) == iter(e.part_gen)

\* get_next_part looking up the cursor itself, not the number after it.
get_next_part_at_cursor(e) ==
    IF e.next_index < len(e.part_gen)
    THEN getitem(e.part_gen, e.next_index)
    ELSE ReturnNone

\* DandiETag.get_next_part
get_next_part(e) ==
    IF e.next_index < part_qty(e)
    THEN getitem(e.part_gen, e.next_index + 1)
    ELSE ReturnNone

\* A Python list subscript: the position (from 1) of list[i] in a list of
\* length n, or 0 when list[i] raises IndexError.
subscript(n, i) ==
    IF i >= n \/ i < -n THEN 0
    ELSE IF i < 0 THEN n + i + 1
    ELSE i + 1

RECURSIVE blob_from(_, _, _)
\* lines 123-125: the loop over the list from position i (from 1) on, blob
\* being what is concatenated so far; the assertion that a digest is not
\* None fails the call
blob_from(digests, i, blob) ==
    IF i > Len(digests) THEN Return(blob)
    ELSE IF digests[i] = None THEN Raise("AssertionError")
    ELSE blob_from(digests, i + 1, blob \o Get(digests[i]))

\* lines 122-125: the digests concatenated in list order
blob_of(digests) == blob_from(digests, 1, <<>>)

reversed(seq) == [i \in 1..Len(seq) |-> seq[Len(seq) + 1 - i]]

\* as_str concatenating the digests from the last slot to the first.
as_str_reversed(e) ==
    IF e.next_index # len(e.part_gen) THEN Raise("ValueError")
    ELSE LET blob == blob_of(reversed(e.md5_digests))
         IN  IF blob.err # "none" THEN blob
             ELSE Return(hexdigest(Get(blob.ret)) \o <<"-">> \o
                         str(Len(e.md5_digests)))

\* DandiETag.as_str
as_str(e) ==
    IF ~complete(e) THEN Raise("ValueError")
    ELSE LET blob == blob_of(e.md5_digests)
         IN  IF blob.err # "none" THEN blob
             ELSE Return(hexdigest(Get(blob.ret)) \o <<"-">> \o
                         str(Len(e.md5_digests)))

\* The outcome of a call that changes the accumulator: the exception raised
\* and the accumulator it leaves.
Left(err, e) == [err |-> err, etag |-> e]

\* _update_index with `if` for `while`: it advances by one slot at most.
update_index_once(e) ==
    IF /\ e.next_index < part_qty(e)
       /\ e.md5_digests[e.next_index + 1] # None
    THEN [e EXCEPT !.next_index = e.next_index + 1]
    ELSE e

RECURSIVE update_index_skip(_)
\* _update_index without the test of the slot: it advances over empty slots.
update_index_skip(e) ==
    IF e.next_index < part_qty(e)
    THEN update_index_skip([e EXCEPT !.next_index = e.next_index + 1])
    ELSE e

RECURSIVE update_index(_)
\* DandiETag._update_index
update_index(e) ==
    IF /\ e.next_index < part_qty(e)
       /\ e.md5_digests[e.next_index + 1] # None
    THEN update_index([e EXCEPT !.next_index = e.next_index + 1])
    ELSE e

\* add_digest without the test of the slot: a second submission overwrites.
add_digest_overwrite(e, p, part_digest) ==
    LET i == p.number - 1
        at == subscript(Len(e.md5_digests), i)
    IN  IF at = 0 THEN Left("IndexError", e)
        ELSE Left("none",
                  update_index([e EXCEPT !.md5_digests[at] = Some(part_digest)]))

\* add_digest without its call of _update_index: the cursor stays.
add_digest_no_advance(e, p, part_digest) ==
    LET i == p.number - 1
        at == subscript(Len(e.md5_digests), i)
    IN  IF at = 0 THEN Left("IndexError", e)
        ELSE IF e.md5_digests[at] # None THEN Left("RuntimeError", e)
        ELSE Left("none", [e EXCEPT !.md5_digests[at] = Some(part_digest)])

\* DandiETag.add_digest
add_digest(e, p, part_digest) ==
    LET i == p.number - 1
        at == subscript(Len(e.md5_digests), i)
    IN  IF at = 0 THEN Left("IndexError", e)
        ELSE IF e.md5_digests[at] # None THEN Left("RuntimeError", e)
        ELSE Left("none",
                  update_index([e EXCEPT !.md5_digests[at] = Some(part_digest)]))

\* add_next_digest without its call of _update_index: the cursor stays.
add_next_digest_no_advance(e, part_digest) ==
    LET at == subscript(Len(e.md5_digests), e.next_index)
    IN  IF e.next_index = part_qty(e) THEN Left("RuntimeError", e)
        ELSE IF at = 0 THEN Left("IndexError", e)
        ELSE Left("none", [e EXCEPT !.md5_digests[at] = Some(part_digest)])

\* add_next_digest without the test of lines 147-151.
add_next_digest_unchecked(e, part_digest) ==
    LET at == subscript(Len(e.md5_digests), e.next_index)
    IN  IF at = 0 THEN Left("IndexError", e)
        ELSE Left("none",
                  update_index([e EXCEPT !.md5_digests[at] = Some(part_digest)]))

\* add_next_digest writing the slot before the cursor, not the one at it.
add_next_digest_previous(e, part_digest) ==
    LET at == subscript(Len(e.md5_digests), e.next_index - 1)
    IN  IF e.next_index = part_qty(e) THEN Left("RuntimeError", e)
        ELSE IF at = 0 THEN Left("IndexError", e)
        ELSE Left("none",
                  update_index([e EXCEPT !.md5_digests[at] = Some(part_digest)]))

\* DandiETag.add_next_digest
add_next_digest(e, part_digest) ==
    LET at == subscript(Len(e.md5_digests), e.next_index)
    IN  IF complete(e) THEN Left("RuntimeError", e)
        ELSE IF at = 0 THEN Left("IndexError", e)
        ELSE Left("none",
                  update_index([e EXCEPT !.md5_digests[at] = Some(part_digest)]))

\* update submitting the block itself, not its digest.
update_raw(e, block) ==
    IF complete(e) THEN Left("RuntimeError", e)
    ELSE add_next_digest(e, block)

\* DandiETag.update
update(e, block) ==
    IF complete(e) THEN Left("RuntimeError", e)
    ELSE add_next_digest(e, md5(block))

\* A successful submission, as the log records it: the part number it was
\* for, the slot (from 1) it filled and the digest stored.
Entry(number, slot, digest) ==
    [number |-> number, slot |-> slot, digest |-> digest]

RECURSIVE from_file_loop(_, _, _, _, _, _)
\* lines 135-137: one update per part the generator yields, each with the
\* block f.read(part.size) returns at the file object's position pos
from_file_loop(e, g, c, size, pos, updates) ==
    LET g2 == next(g)
        part == Get(g2.last)
        block == read(c, size, pos, part.size)
        r == update(e, block)
    IN  IF g2.pc = "exhausted"
        THEN [err |-> "none", etag |-> Some(e), updates |-> updates]
        ELSE IF r.err # "none"
        THEN [err |-> r.err, etag |-> Some(e), updates |-> updates]
        ELSE from_file_loop(r.etag, g2, c, size, pos + Len(block),
                 Append(updates,
                        [part |-> part, block |-> block,
                         entry |-> Entry(e.next_index + 1, e.next_index + 1,
                                         md5(block))]))

\* DandiETag.from_file, for the file of `size` bytes whose content is c
from_file(size, c) ==
    LET made == DandiETag(size)
    IN  IF made.err # "none"
        THEN [err |-> made.err, etag |-> None, updates |-> <<>>]
        ELSE from_file_loop(Get(made.ret), get_parts(Get(made.ret)),
                            c, size, 0, <<>>)

---------------------------------------------------------------------------
(* The calls a client makes on a plan.                                     *)

Call(op, arg, outcome) ==
    [op |-> op, arg |-> arg, err |-> outcome.err, ret |-> outcome.ret]

NoCall == Call("init", <<>>, ReturnNone)

\* The file sizes plans are computed for: around every threshold of
\* for_file_size (nothing, the minimum part size, one and two default
\* parts, the part limit at the default part size, the largest object).
Thresholds ==
    {0, MIN_PART_SIZE, mb(64), 2 * mb(64), (MAX_PARTS - 1) * mb(64),
     MAX_PARTS * mb(64), tb(5)}

PlanSizes ==
    {s \in {t + d : t \in Thresholds, d \in (-Window)..Window} : s >= 0}

\* The indexes looked up in a plan: around its first and its last part.
Indexes(pg) ==
    ((-Window)..1) \cup ((len(pg) - 1)..(len(pg) + Window))

InitPlan ==
    /\ file_size \in PlanSizes
    /\ content = None
    /\ part_gen = None
    /\ it = None
    /\ md5_digests = None
    /\ next_index = None
    /\ call = NoCall
    /\ log = {}
    /\ threads = <<>>

\* plan = PartGenerator.for_file_size(file_size)
ForFileSize ==
    /\ part_gen = None
    /\ call' = Call("for_file_size", <<file_size>>, for_file_size(file_size))
    /\ part_gen' = for_file_size(file_size).ret
    /\ UNCHANGED <<file_size, content, it, md5_digests, next_index, log,
                   threads>>

\* plan[index]
GetItem ==
    /\ part_gen # None
    /\ \E index \in Indexes(Get(part_gen)) :
          call' = Call("getitem", <<index>>, getitem(Get(part_gen), index))
    /\ UNCHANGED <<file_size, content, part_gen, it, md5_digests, next_index,
                   log, threads>>

\* g = iter(plan)
Iter ==
    /\ part_gen # None
    /\ it = None
    /\ it' = Some(iter(Get(part_gen)))
    /\ call' = Call("iter", <<>>, ReturnNone)
    /\ UNCHANGED <<file_size, content, part_gen, md5_digests, next_index, log,
                   threads>>

\* next(g): the part yielded, or StopIteration
Next_ ==
    /\ it # None
    /\ Get(it).pc # "exhausted"
    /\ LET g == next(Get(it))
       IN  /\ it' = Some(g)
           /\ call' = Call("next", <<>>,
                           IF g.pc = "exhausted" THEN Raise("StopIteration")
                           ELSE Return(Get(g.last)))
    /\ UNCHANGED <<file_size, content, part_gen, md5_digests, next_index, log,
                   threads>>

NextPlan == ForFileSize \/ GetItem \/ Iter \/ Next_

SpecPlan == InitPlan /\ [][NextPlan]_vars

---------------------------------------------------------------------------
(* The calls a single-threaded client makes on an accumulator.             *)

\* The accumulator the state holds.
Etag ==
    [part_gen |-> Get(part_gen), md5_digests |-> Get(md5_digests),
     next_index |-> Get(next_index)]

Constructed == md5_digests # None

\* The file sizes accumulators are built for: the sizes up to the minimum
\* part size and a little more, the sizes of 1..MaxQty parts whose final
\* part is full or not, the size of MAX_PARTS default parts, the largest
\* object and the sizes just above it.
EtagSizes ==
    (0..(MIN_PART_SIZE + Window))
    \cup {q * mb(64) + d : q \in 1..MaxQty, d \in (-Window)..0}
    \cup {MAX_PARTS * mb(64)}
    \cup {tb(5) + d : d \in 0..Window}

\* Submissions are explored on accumulators of at most MaxQty parts.
Explored == Constructed /\ part_qty(Etag) <= MaxQty

\* The blocks a caller passes to update and the digests it submits.
Blocks == {<<k>> : k \in 1..NumDigests}

Digests == {md5(b) : b \in Blocks}

Contents == 1..NumContents

\* The parts a caller passes to add_digest: every part of the plan, and a
\* Part for the numbers next to the plan's on either side (0, -1 and
\* part_qty + 1).
PartArgs(pg) ==
    {IF getitem(pg, n).err = "none" THEN Get(getitem(pg, n).ret)
     ELSE Part(n, 0, 0) : n \in (-1)..(len(pg) + 1)}

Init ==
    /\ file_size \in EtagSizes
    /\ content = None
    /\ part_gen = None
    /\ it = None
    /\ md5_digests = None
    /\ next_index = None
    /\ call = NoCall
    /\ log = {}
    /\ threads = <<>>

\* The accumulator the state holds becomes e.
Becomes(e) ==
    /\ part_gen' = Some(e.part_gen)
    /\ md5_digests' = Some(e.md5_digests)
    /\ next_index' = Some(e.next_index)

\* etag = DandiETag(file_size)
Construct ==
    /\ part_gen = None
    /\ call.op = "init"
    /\ LET made == DandiETag(file_size)
       IN  /\ call' = Call("DandiETag", <<file_size>>, made)
           /\ IF made.err = "none" THEN Becomes(Get(made.ret))
              ELSE UNCHANGED <<part_gen, md5_digests, next_index>>
    /\ UNCHANGED <<file_size, content, it, log, threads>>

\* etag.add_digest(p, part_digest)
AddDigest ==
    /\ Explored
    /\ \E p \in PartArgs(Etag.part_gen), part_digest \in Digests :
          LET r == add_digest(Etag, p, part_digest)
          IN  /\ call' = Call("add_digest", <<p, part_digest>>, Raise(r.err))
              /\ Becomes(r.etag)
              /\ log' = IF r.err # "none" THEN log
                        ELSE log \cup
                             {Entry(p.number,
                                    subscript(part_qty(Etag), p.number - 1),
                                    part_digest)}
    /\ UNCHANGED <<file_size, content, it, threads>>

\* etag.add_next_digest(part_digest)
AddNextDigest ==
    /\ Explored
    /\ \E part_digest \in Digests :
          LET r == add_next_digest(Etag, part_digest)
          IN  /\ call' = Call("add_next_digest", <<part_digest>>, Raise(r.err))
              /\ Becomes(r.etag)
              /\ log' = IF r.err # "none" THEN log
                        ELSE log \cup
                             {Entry(Etag.next_index + 1, Etag.next_index + 1,
                                    part_digest)}
    /\ UNCHANGED <<file_size, content, it, threads>>

\* etag.update(block)
Update ==
    /\ Explored
    /\ \E block \in Blocks :
          LET r == update(Etag, block)
          IN  /\ call' = Call("update", <<block>>, Raise(r.err))
              /\ Becomes(r.etag)
              /\ log' = IF r.err # "none" THEN log
                        ELSE log \cup
                             {Entry(Etag.next_index + 1, Etag.next_index + 1,
                                    md5(block))}
    /\ UNCHANGED <<file_size, content, it, threads>>

\* etag.as_str()
AsStr ==
    /\ Constructed
    /\ call' = Call("as_str", <<>>, as_str(Etag))
    /\ UNCHANGED <<file_size, content, part_gen, it, md5_digests, next_index,
                   log, threads>>

\* etag.get_next_part()
GetNextPart ==
    /\ Constructed
    /\ call' = Call("get_next_part", <<>>, get_next_part(Etag))
    /\ UNCHANGED <<file_size, content, part_gen, it, md5_digests, next_index,
                   log, threads>>

\* etag = DandiETag.from_file(path), path naming a file of file_size bytes
\* whose content is c.  The call records the updates made, each with the
\* part iterated and the block read; when it raises, the state keeps the
\* accumulator as the exception left it.
FromFile ==
    /\ part_gen = None
    /\ call.op = "init"
    /\ LET plan == for_file_size(file_size)
       IN  IF plan.err = "none" THEN len(Get(plan.ret)) <= MaxQty ELSE TRUE
    /\ \E c \in Contents :
          LET r == from_file(file_size, c)
          IN  /\ content' = Some(c)
              /\ call' = Call("from_file", <<c>>,
                              [err |-> r.err, ret |-> r.updates])
              /\ IF r.etag # None THEN Becomes(Get(r.etag))
                 ELSE UNCHANGED <<part_gen, md5_digests, next_index>>
              /\ log' = {r.updates[k].entry : k \in 1..Len(r.updates)}
    /\ UNCHANGED <<file_size, it, threads>>

Next ==
    \/ Construct
    \/ AddDigest
    \/ AddNextDigest
    \/ Update
    \/ AsStr
    \/ GetNextPart
    \/ FromFile

Spec == Init /\ [][Next]_vars

---------------------------------------------------------------------------
(* Threads calling add_digest on one accumulator.  The code takes no lock, *)
(* so a thread may be switched out between any two reads or writes of the  *)
(* accumulator's attributes: each action below is one such read or write   *)
(* with the tests that follow it, named by the line of dandietag.py it     *)
(* executes.                                                               *)

Threads == 1..NumThreads

\* The sizes of the files of 1..MaxQty full parts.
ThreadSizes == {q * mb(64) : q \in 1..MaxQty}

Idle == [pc |-> "idle", p |-> None, part_digest |-> None, tmp |-> 0,
         err |-> "none"]

InitThreads ==
    /\ file_size \in ThreadSizes
    /\ content = None
    /\ part_gen = Some(Get(DandiETag(file_size).ret).part_gen)
    /\ it = None
    /\ md5_digests = Some(Get(DandiETag(file_size).ret).md5_digests)
    /\ next_index = Some(Get(DandiETag(file_size).ret).next_index)
    /\ call = NoCall
    /\ log = {}
    /\ threads = [t \in Threads |-> Idle]

At(t, pc) == threads[t].pc = pc

Goto(t, pc) == threads' = [threads EXCEPT ![t].pc = pc]

Raises(t, e) == threads' = [threads EXCEPT ![t].pc = "done", ![t].err = e]

Shared == <<file_size, content, part_gen, it, call, log>>

\* Thread t calls etag.add_digest(p, part_digest) with a part of the plan.
TCall(t) ==
    /\ At(t, "idle")
    /\ \E n \in 1..part_qty(Etag), part_digest \in Digests :
          threads' = [threads EXCEPT
                         ![t].pc = "141",
                         ![t].p = Some(Get(getitem(Etag.part_gen, n).ret)),
                         ![t].part_digest = Some(part_digest)]
    /\ UNCHANGED <<Shared, md5_digests, next_index>>

\* lines 140-142: read the slot; raise if it holds a digest
TCheck(t) ==
    /\ At(t, "141")
    /\ IF Etag.md5_digests[Get(threads[t].p).number] # None
       THEN Raises(t, "RuntimeError")
       ELSE Goto(t, "143")
    /\ UNCHANGED <<Shared, md5_digests, next_index>>

\* line 143: write the slot
TStore(t) ==
    /\ At(t, "143")
    /\ md5_digests' = Some([Etag.md5_digests EXCEPT
                               ![Get(threads[t].p).number] =
                                   threads[t].part_digest])
    /\ Goto(t, "157")
    /\ UNCHANGED <<Shared, next_index>>

\* line 157: read _next_index and compare it with part_qty
TWhileQty(t) ==
    /\ At(t, "157")
    /\ IF Etag.next_index < part_qty(Etag)
       THEN Goto(t, "158")
       ELSE Goto(t, "done")
    /\ UNCHANGED <<Shared, md5_digests, next_index>>

\* line 158: read _next_index again and the slot it names; the subscript
\* raises IndexError when _next_index has reached the length of the list
TWhileSlot(t) ==
    /\ At(t, "158")
    /\ IF subscript(Len(Etag.md5_digests), Etag.next_index) = 0
       THEN Raises(t, "IndexError")
       ELSE IF Etag.md5_digests[Etag.next_index + 1] # None
       THEN Goto(t, "160")
       ELSE Goto(t, "done")
    /\ UNCHANGED <<Shared, md5_digests, next_index>>

\* line 160, the read of `self._next_index += 1`
TLoad(t) ==
    /\ At(t, "160")
    /\ threads' = [threads EXCEPT ![t].pc = "160w",
                                  ![t].tmp = Etag.next_index]
    /\ UNCHANGED <<Shared, md5_digests, next_index>>

\* line 160, the write of `self._next_index += 1`
TWrite(t) ==
    /\ At(t, "160w")
    /\ next_index' = Some(threads[t].tmp + 1)
    /\ Goto(t, "157")
    /\ UNCHANGED <<Shared, md5_digests>>

NextThreads ==
    \E t \in Threads :
        \/ TCall(t)
        \/ TCheck(t)
        \/ TStore(t)
        \/ TWhileQty(t)
        \/ TWhileSlot(t)
        \/ TLoad(t)
        \/ TWrite(t)

SpecThreads == InitThreads /\ [][NextThreads]_vars

---------------------------------------------------------------------------
(* Properties of the plan (SpecPlan).                                      *)

\* C1: for every file size 0 <= s <= 5 TiB the plan has between 1 and 10000
\* parts, iteration yields parts numbered from 1 upwards, the first at
\* offset 0 and each at the offset where the previous one ends, and the
\* sizes yielded sum to s, the last part ending at s.
C1_PlanCoversFile ==
    part_gen # None =>
        /\ len(Get(part_gen)) \in 1..MAX_PARTS
        /\ it # None =>
              LET g == Get(it)
              IN  /\ (g.last # None /\ g.prev = None) =>
                        Get(g.last).number = 1 /\ Get(g.last).offset = 0
                  /\ (g.last # None /\ g.prev # None) =>
                        /\ Get(g.last).number = Get(g.prev).number + 1
                        /\ Get(g.last).offset =
                              Get(g.prev).offset + Get(g.prev).size
                  /\ g.pc = "exhausted" =>
                        /\ g.total = file_size
                        /\ g.last # None
                        /\ Get(g.last).offset + Get(g.last).size = file_size

\* C10: the i-th part iteration yields is the part plan[i] returns, for
\* every i in 1..part_qty, and iteration yields exactly part_qty parts.
C10_LookupMatchesIteration ==
    (part_gen # None /\ it # None) =>
        LET g == Get(it)
            pg == Get(part_gen)
        IN  /\ (g.last # None /\ g.count \in 1..len(pg)) =>
                  getitem(pg, g.count) = Return(Get(g.last))
            /\ g.pc = "exhausted" => g.count = len(pg)

\* C11: plan[index] with an index outside 1..part_qty (0, a negative index,
\* part_qty + 1) raises IndexError and returns no Part.
C11_LookupOutOfRange ==
    (part_gen # None /\ call.op = "getitem"
        /\ call.arg[1] \notin 1..len(Get(part_gen))) =>
        /\ call.err = "IndexError"
        /\ call.ret = None

\* C16: a plan of one part has initial_part_size = final_part_size =
\* file_size; a plan of more than one part has 1 <= final_part_size <=
\* initial_part_size and 5 MiB <= initial_part_size <= 5 GiB.
C16_PlanSizes ==
    part_gen # None =>
        LET pg == Get(part_gen)
        IN  /\ len(pg) = 1 =>
                  /\ pg.initial_part_size = file_size
                  /\ pg.final_part_size = file_size
            /\ len(pg) > 1 =>
                  /\ 1 <= pg.final_part_size
                  /\ pg.final_part_size <= pg.initial_part_size
                  /\ MIN_PART_SIZE <= pg.initial_part_size
                  /\ pg.initial_part_size <= MAX_PART_SIZE

\* C16 witness: the one-part plan of a file smaller than the minimum part
\* size.
C16_Witness ==
    /\ part_gen # None
    /\ call.op = "for_file_size"
    /\ len(Get(part_gen)) = 1
    /\ file_size < MIN_PART_SIZE

\* C17: for a file of s <= 5 TiB bytes, when ceil(s / 64 MiB) < 10000 the
\* part size stays 64 MiB and the plan has ceil(s / 64 MiB) parts; when
\* ceil(s / 64 MiB) >= 10000 the part size is ceil(s / 10000); the plan
\* never has more than 10000 parts.
C17_PartLimit ==
    (part_gen # None /\ file_size <= tb(5)) =>
        LET pg == Get(part_gen)
            n == ceil(file_size, mb(64))
            part_size == clamp_part_size(part_size_for_limit(file_size, mb(64)))
        IN  /\ n < MAX_PARTS =>
                  /\ part_size = mb(64)
                  /\ len(pg) = n
                  /\ len(pg) > 1 => pg.initial_part_size = mb(64)
            /\ n >= MAX_PARTS =>
                  /\ part_size = ceil(file_size, MAX_PARTS)
                  /\ pg.initial_part_size = ceil(file_size, MAX_PARTS)
                  /\ len(pg) = ceil(file_size, part_size)
            /\ len(pg) <= MAX_PARTS
            /\ file_size = MAX_PARTS * mb(64) =>
                  pg = PartGenerator(MAX_PARTS, mb(64), mb(64))

\* C17 witness: the plan of the first size that 10000 parts of 64 MiB do
\* not hold.
C17_Witness ==
    /\ part_gen # None
    /\ call.op = "for_file_size"
    /\ file_size = MAX_PARTS * mb(64) + 1
    /\ Get(part_gen).initial_part_size > mb(64)

\* C18, as claimed: for an empty file the part size is clamped to 5 MiB and
\* the plan has 0 parts with initial_part_size = final_part_size = 5 MiB.
C18_EmptyFileClampedToMin ==
    (part_gen # None /\ file_size = 0) =>
        /\ clamp_part_size(part_size_for_limit(file_size, mb(64)))
              = MIN_PART_SIZE
        /\ Get(part_gen) = PartGenerator(0, MIN_PART_SIZE, MIN_PART_SIZE)

\* C18, amended: for an empty file the part size stays 64 MiB, neither the
\* part limit nor the clamp changing it, and the plan has 0 parts with
\* initial_part_size = final_part_size = 64 MiB; the single-part collapse
\* does not apply, the sizes not being the file's size.
C18_EmptyFileKeepsDefault ==
    (part_gen # None /\ file_size = 0) =>
        /\ part_size_for_limit(file_size, mb(64)) = mb(64)
        /\ clamp_part_size(mb(64)) = mb(64)
        /\ Get(part_gen) = PartGenerator(0, mb(64), mb(64))
        /\ Get(part_gen).initial_part_size # file_size
        /\ call.op = "for_file_size" => call.err = "none"

\* C18 witness: for_file_size returned for the empty file.
C18_Witness ==
    /\ part_gen # None
    /\ file_size = 0
    /\ call.op = "for_file_size"
    /\ call.err = "none"

---------------------------------------------------------------------------
(* Properties of the accumulator used by one thread (Spec).                *)

\* Every part of the plan has been submitted once, and nothing else has.
FullyLogged ==
    /\ Constructed
    /\ {x.number : x \in log} = 1..part_qty(Etag)
    /\ Cardinality(log) = part_qty(Etag)

\* The digest submitted for each part number.
Assigned ==
    [k \in 1..part_qty(Etag) |-> (CHOOSE x \in log : x.number = k).digest]

RECURSIVE submit_in_order(_, _, _)
\* The accumulator after add_digest for the parts k, k + 1, ..., part_qty
\* of the plan in this order, each with the digest assigned to it.
submit_in_order(e, k, assigned) ==
    IF k > part_qty(e) THEN e
    ELSE submit_in_order(
             add_digest(e, Get(getitem(e.part_gen, k).ret), assigned[k]).etag,
             k + 1, assigned)

RECURSIVE concat(_, _, _)
\* The digests assigned to the parts k..n, joined in ascending part number.
concat(assigned, k, n) ==
    IF k > n THEN <<>> ELSE assigned[k] \o concat(assigned, k + 1, n)

\* The slot add_digest uses for part number n holds a digest.
SlotFilled(n) ==
    LET at == subscript(Len(Etag.md5_digests), n - 1)
    IN  at # 0 /\ Etag.md5_digests[at] # None

\* C2: once every part of the plan has been submitted, in whatever order,
\* the accumulator is complete and its slots, its cursor and its as_str()
\* are those of a fresh accumulator given the same digests by add_digest in
\* ascending part-number order.
C2_AnyOrderSameResult ==
    FullyLogged =>
        LET ordered == submit_in_order(Get(DandiETag(file_size).ret), 1,
                                       Assigned)
        IN  /\ complete(Etag)
            /\ Etag.md5_digests = ordered.md5_digests
            /\ Etag.next_index = ordered.next_index
            /\ as_str(Etag).err = "none"
            /\ as_str(Etag) = as_str(ordered)

\* C2 witness: a two-part accumulator completed by add_digest for part 1,
\* part 2 having been submitted before it.
C2_Witness ==
    /\ FullyLogged
    /\ part_qty(Etag) = 2
    /\ call.op = "add_digest"
    /\ call.err = "none"
    /\ call.arg[1].number = 1

\* C3: add_digest for a part number whose slot holds a digest raises
\* RuntimeError and leaves the slots and the cursor as they were.
C3_ResubmitConflict ==
    [][(Constructed /\ call'.op = "add_digest"
            /\ SlotFilled(call'.arg[1].number)) =>
          /\ call'.err = "RuntimeError"
          /\ md5_digests' = md5_digests
          /\ next_index' = next_index]_vars

\* C3 witness: a rejected add_digest whose digest is the one the slot holds.
C3_Witness ==
    /\ Constructed
    /\ call.op = "add_digest"
    /\ call.err = "RuntimeError"
    /\ call.arg[1].number \in 1..part_qty(Etag)
    /\ Etag.md5_digests[call.arg[1].number] = Some(call.arg[2])

\* C6: complete only if every slot holds a digest; as_str() raises
\* ValueError whenever the accumulator is not complete, and otherwise
\* returns: its assertion on the slots never fails.
C6_CompleteMeansAllFilled ==
    Constructed =>
        /\ complete(Etag) =>
              \A k \in 1..Len(Etag.md5_digests) : Etag.md5_digests[k] # None
        /\ ~complete(Etag) => as_str(Etag) = Raise("ValueError")
        /\ call.op = "as_str" =>
              call.err = IF complete(Etag) THEN "none" ELSE "ValueError"

\* C6 witness: as_str() returned on a two-part accumulator.
C6_Witness ==
    /\ Constructed
    /\ part_qty(Etag) = 2
    /\ call.op = "as_str"
    /\ call.err = "none"

\* C7: a file size above 5 TiB is rejected with ValueError, by for_file_size
\* and by the constructor, and no plan, slot array or cursor exists then;
\* 5 TiB itself is accepted.
C7_RejectsAboveMax ==
    /\ file_size > tb(5) =>
          /\ for_file_size(file_size) = Raise("ValueError")
          /\ DandiETag(file_size) = Raise("ValueError")
          /\ part_gen = None /\ md5_digests = None /\ next_index = None
          /\ call.op \in {"DandiETag", "from_file"} => call.err = "ValueError"
    /\ file_size = tb(5) =>
          /\ for_file_size(file_size).err = "none"
          /\ call.op = "DandiETag" => call.err = "none" /\ Constructed

\* C7 witness: the constructor raised for 5 TiB + 1.
C7_Witness ==
    /\ file_size = tb(5) + 1
    /\ call.op = "DandiETag"
    /\ call.err = "ValueError"

\* C8: as_str() on a complete accumulator is the hex digest of the digests
\* submitted for the parts 1, 2, ..., joined in this order, then "-", then
\* the plan's part count in decimal; for two parts holding d1 and d2 it is
\* hex(md5(d1 ++ d2)) ++ "-2"; the count has at most 5 digits and the text
\* at most 38 characters.
C8_AsStrFormat ==
    Constructed =>
        /\ Len(str(len(Etag.part_gen))) <= 5
        /\ (FullyLogged /\ call.op = "as_str" /\ call.err = "none") =>
              /\ call.ret =
                    Some(hex(md5(concat(Assigned, 1, len(Etag.part_gen))))
                         \o <<"-">> \o str(len(Etag.part_gen)))
              /\ Len(Get(call.ret)) <= 38
              /\ len(Etag.part_gen) = 2 =>
                    Get(call.ret) =
                        hex(md5(Assigned[1] \o Assigned[2])) \o <<"-", "2">>

\* C8 witness: as_str() returned on a two-part accumulator whose two
\* digests differ.
C8_Witness ==
    /\ FullyLogged
    /\ part_qty(Etag) = 2
    /\ call.op = "as_str"
    /\ call.err = "none"
    /\ Assigned[1] # Assigned[2]

\* The bytes of the whole file.
WholeFile == read(Get(content), file_size, 0, file_size)

\* C9, as claimed: a file smaller than 64 MiB gets one part, and from_file
\* leaves an accumulator whose as_str() is hex(md5(whole file)) ++ "-1".
C9_SmallFileWholeDigest ==
    file_size < mb(64) =>
        /\ Constructed => part_qty(Etag) = 1
        /\ call.op = "from_file" =>
              /\ call.err = "none"
              /\ Constructed
              /\ as_str(Etag) = Return(hex(md5(WholeFile)) \o <<"-", "1">>)

\* C9, amended: a file of at least one byte and less than 64 MiB gets one
\* part, and from_file leaves an accumulator whose as_str() is
\* hex(md5(md5(whole file))) ++ "-1": the digest of the one part's digest.
\* An empty file gets no part and from_file raises RuntimeError.
C9_SmallFileDigestOfDigest ==
    file_size < mb(64) =>
        /\ Constructed => part_qty(Etag) = IF file_size = 0 THEN 0 ELSE 1
        /\ call.op = "from_file" =>
              /\ Constructed
              /\ IF file_size = 0 THEN call.err = "RuntimeError"
                 ELSE /\ call.err = "none"
                      /\ as_str(Etag) =
                            Return(hex(md5(md5(WholeFile))) \o <<"-", "1">>)

\* C9 witness: from_file returned for a file one unit short of 64 MiB.
C9_Witness ==
    /\ file_size = mb(64) - 1
    /\ call.op = "from_file"
    /\ call.err = "none"

\* C12: on an accumulator that is not complete, add_next_digest(d) leaves
\* the slots and the cursor that add_digest(plan[next_index + 1], d) would
\* leave, and raises what it would raise, whatever add_digest calls came
\* before; on a complete accumulator add_next_digest and update raise
\* RuntimeError and leave the slots and the cursor as they were.
C12_NextDigestIsAddDigest ==
    [][(Constructed /\ call'.op \in {"add_next_digest", "update"}) =>
          IF complete(Etag)
          THEN /\ call'.err = "RuntimeError"
               /\ md5_digests' = md5_digests
               /\ next_index' = next_index
          ELSE call'.op = "add_next_digest" =>
                  LET p == getitem(Etag.part_gen, Etag.next_index + 1)
                      r == add_digest(Etag, Get(p.ret), call'.arg[1])
                  IN  /\ p.err = "none"
                      /\ call'.err = r.err
                      /\ md5_digests' = Some(r.etag.md5_digests)
                      /\ next_index' = Some(r.etag.next_index)]_vars

\* C12 witness: add_next_digest filled part 1 of a two-part accumulator
\* whose part 2 had been submitted by add_digest before.
C12_Witness ==
    /\ Constructed
    /\ part_qty(Etag) = 2
    /\ call.op = "add_next_digest"
    /\ call.err = "none"
    /\ \E x \in log : x.number = 1 /\ x.digest = call.arg[1]
    /\ \E x \in log : x.number = 2
    /\ complete(Etag)

\* C13: get_next_part leaves the slots and the cursor as they were; on an
\* accumulator that is not complete it returns the plan's part numbered
\* next_index + 1, at offset next_index * initial_part_size, of the final
\* size if it is the last part and of the initial size otherwise, and the
\* slot of that part is empty; on a complete accumulator it returns None.
C13_NextPartIsFirstEmpty ==
    [][(Constructed /\ call'.op = "get_next_part") =>
          /\ md5_digests' = md5_digests
          /\ next_index' = next_index
          /\ part_gen' = part_gen
          /\ call'.err = "none"
          /\ IF complete(Etag) THEN call'.ret = None
             ELSE LET n == Etag.next_index + 1
                      pg == Etag.part_gen
                  IN  /\ n \in 1..part_qty(Etag)
                      /\ call'.ret =
                            Some(Part(n, (n - 1) * pg.initial_part_size,
                                      IF n = pg.part_qty
                                      THEN pg.final_part_size
                                      ELSE pg.initial_part_size))
                      /\ call'.ret = getitem(pg, n).ret
                      /\ Etag.md5_digests[n] = None]_vars

\* C13 witness: get_next_part returned part 1 of a two-part accumulator
\* whose part 2 is already submitted.
C13_Witness ==
    /\ Constructed
    /\ part_qty(Etag) = 2
    /\ call.op = "get_next_part"
    /\ call.ret # None
    /\ Get(call.ret).number = 1
    /\ Etag.md5_digests[2] # None

\* C14: for every file size 0 <= s <= 5 TiB, from_file raises nothing and
\* returns a complete accumulator, having made one update per part of the
\* plan, in ascending part number, each with a block of the part's size.
C14_FromFileCompletes ==
    (call.op = "from_file" /\ file_size <= tb(5)) =>
        /\ call.err = "none"
        /\ Constructed
        /\ complete(Etag)
        /\ Len(call.ret) = part_qty(Etag)
        /\ \A k \in 1..Len(call.ret) :
              /\ getitem(Etag.part_gen, k) = Return(call.ret[k].part)
              /\ Len(call.ret[k].block) = call.ret[k].part.size
              /\ call.ret[k].entry.number = k

\* C15: in every state a single thread reaches by add_digest,
\* add_next_digest and update calls, failed calls included, the cursor is
\* between 0 and the part count, every slot before the cursor holds a
\* digest and the slot at the cursor, if there is one, is empty: the cursor
\* is the number of contiguously filled slots counted from the first.
C15_CursorIsFilledPrefix ==
    Constructed =>
        /\ Etag.next_index \in 0..part_qty(Etag)
        /\ Len(Etag.md5_digests) = part_qty(Etag)
        /\ \A k \in 1..Etag.next_index : Etag.md5_digests[k] # None
        /\ Etag.next_index < part_qty(Etag) =>
              Etag.md5_digests[Etag.next_index + 1] = None

\* C15 witness: a two-part accumulator whose part 2 alone is submitted,
\* after an add_digest call for it that failed.
C15_Witness ==
    /\ Constructed
    /\ part_qty(Etag) = 2
    /\ call.op = "add_digest"
    /\ call.err = "RuntimeError"
    /\ call.arg[1].number = 2
    /\ Etag.md5_digests[1] = None
    /\ Etag.md5_digests[2] # None
    /\ Etag.next_index = 0

\* C19: a complete accumulator stays as it is.  From a complete state every
\* call leaves the plan, the slots and the cursor unchanged; add_digest for
\* a part of the plan raises RuntimeError, add_next_digest and update raise
\* RuntimeError, and as_str() returns the string the unchanged state gives.
C19_CompleteIsFinal ==
    [][(Constructed /\ complete(Etag)) =>
          /\ part_gen' = part_gen
          /\ md5_digests' = md5_digests
          /\ next_index' = next_index
          /\ (call'.op = "add_digest"
                 /\ call'.arg[1].number \in 1..part_qty(Etag)) =>
                call'.err = "RuntimeError"
          /\ call'.op \in {"add_next_digest", "update"} =>
                call'.err = "RuntimeError"
          /\ call'.op = "as_str" =>
                /\ call'.err = "none"
                /\ call'.ret = as_str(Etag).ret
                /\ call.op = "as_str" => call'.ret = call.ret]_vars

\* C19 witness: update was refused on a complete two-part accumulator.
C19_Witness ==
    /\ Constructed
    /\ part_qty(Etag) = 2
    /\ complete(Etag)
    /\ call.op = "update"
    /\ call.err = "RuntimeError"

\* C20: add_digest with a part whose number is outside 1..part_qty (0, a
\* negative number, part_qty + 1) raises an error and leaves the slots and
\* the cursor as they were; every digest stored is stored for a part
\* number of the plan, in the slot at position number - 1.
C20_RejectsForeignPart ==
    [][Constructed =>
          /\ (call'.op = "add_digest"
                 /\ call'.arg[1].number \notin 1..part_qty(Etag)) =>
                /\ call'.err # "none"
                /\ md5_digests' = md5_digests
                /\ next_index' = next_index
          /\ \A x \in log' :
                x.number \in 1..part_qty(Etag) /\ x.slot = x.number]_vars

\* C21: on an accumulator of at least one part used by one thread, no call
\* lowers the cursor, no call empties or changes a slot that holds a digest,
\* a call fills one slot if it succeeds as a submission and none otherwise,
\* and the accumulator is complete exactly when the successful submissions
\* number part_qty: not before the part_qty-th, and from it on.
C21_MonotoneUntilComplete ==
    [][(md5_digests' # None /\ len(Get(part_gen')) >= 1) =>
          LET qty == len(Get(part_gen'))
              after == Get(md5_digests')
              filled == {k \in 1..Len(after) : after[k] # None}
          IN  /\ Cardinality(log') <= qty
              /\ Cardinality(filled) = Cardinality(log')
              /\ (Get(next_index') = qty) <=> (Cardinality(log') = qty)
              /\ Constructed =>
                    /\ part_gen' = part_gen
                    /\ Get(next_index') >= Etag.next_index
                    /\ \A k \in 1..Len(Etag.md5_digests) :
                          Etag.md5_digests[k] # None =>
                              after[k] = Etag.md5_digests[k]
                    /\ Cardinality(log') \in
                          {Cardinality(log), Cardinality(log) + 1}
                    /\ (Cardinality(log') = Cardinality(log)) <=>
                          (md5_digests' = md5_digests)]_vars

\* C21 witness: the second successful submission on a two-part accumulator,
\* by add_digest for part 2, made it complete.
C21_Witness ==
    /\ Constructed
    /\ part_qty(Etag) = 2
    /\ call.op = "add_digest"
    /\ call.err = "none"
    /\ call.arg[1].number = 2
    /\ Cardinality(log) = 2
    /\ complete(Etag)

---------------------------------------------------------------------------
(* Properties of the accumulator used by several threads (SpecThreads).    *)

AllDone == \A t \in Threads : threads[t].pc = "done"

\* The number of slots, counted from the first, that hold a digest without
\* an empty slot before them.
filled_prefix(digests) ==
    Cardinality({k \in 1..Len(digests) :
                    \A j \in 1..k : digests[j] # None})

\* C4: when all threads have called add_digest for the same part number,
\* exactly one call succeeded, every other raised RuntimeError, and the slot
\* holds the digest of the call that succeeded.
C4_SamePartOneWinner ==
    (AllDone /\ \A t, u \in Threads :
                    Get(threads[t].p).number = Get(threads[u].p).number) =>
        \E w \in Threads :
            /\ threads[w].err = "none"
            /\ \A t \in Threads \ {w} : threads[t].err = "RuntimeError"
            /\ Etag.md5_digests[Get(threads[w].p).number] =
                  threads[w].part_digest

\* C5: when all threads have called add_digest for distinct part numbers,
\* every call succeeded and next_index is the number of contiguously filled
\* slots counted from the first, and at most part_qty.
C5_DistinctPartsConsistentIndex ==
    (AllDone /\ \A t, u \in Threads :
                    t # u => Get(threads[t].p).number # Get(threads[u].p).number)
    =>  /\ \A t \in Threads : threads[t].err = "none"
        /\ Etag.next_index = filled_prefix(Etag.md5_digests)
        /\ Etag.next_index <= part_qty(Etag)

====
